---------------------------- MODULE Spec2Model ----------------------------
(***************************************************************************)
(* A model of richmond_lead_scraper.py: the /run trigger, the worker       *)
(* run_scraper_process with its module-level state (scraper_logs,          *)
(* seen_emails, scraper_in_progress), the extraction helpers               *)
(* (find_email_on_website, find_owner_name_and_phone), the phone           *)
(* normaliser, the Brevo upload and the rolling log buffer.                *)
(*                                                                         *)
(* Python strings are modelled as sequences of one-character strings, so   *)
(* that lower(), strip(), split(), "in" and the regular expressions are    *)
(* computed character by character.  URLs and categories are only compared *)
(* and tested for emptiness in the code, so they are atomic strings.       *)
(***************************************************************************)
EXTENDS Integers, Sequences, FiniteSets, TLC

VARIABLES
  scraper_in_progress,  \* module global, line 23
  scraper_logs,         \* module global, line 21
  seen_emails,          \* module global, line 22
  th,                   \* per /run thread: position and locals of run_scraper_process
  brevo_calls,          \* per thread: the add_to_brevo invocations made, in order
  processed,            \* per thread: one record per business whose loop body completed
  lg,                   \* log_message in progress, statement by statement (SpecLog)
  appended,             \* every entry ever appended to scraper_logs (SpecLog)
  observed,             \* the last snapshot served by /logs (SpecLog)
  raw_phone,            \* input of normalize_phone_for_sms (SpecPhone)
  phone_digits,         \* the digits raw_phone was built around (SpecPhone)
  sms_phone,            \* result of normalize_phone_for_sms (SpecPhone)
  page_emails,          \* re.findall result scanned by find_email_on_website (SpecEmail)
  found_email,          \* result of find_email_on_website (SpecEmail)
  page_text,            \* r.text parsed by find_owner_name_and_phone (SpecOwner)
  owner_phone,          \* result of find_owner_name_and_phone (SpecOwner)
  fn_done               \* the pure function under check has been applied

vars == << scraper_in_progress, scraper_logs, seen_emails, th, brevo_calls,
           processed, lg, appended, observed, raw_phone, phone_digits,
           sms_phone, page_emails, found_email, page_text, owner_phone,
           fn_done >>

runVars  == << scraper_in_progress, seen_emails, th, brevo_calls, processed >>
logVars  == << lg, appended, observed >>
pureVars == << raw_phone, phone_digits, sms_phone, page_emails, found_email,
               page_text, owner_phone, fn_done >>

-----------------------------------------------------------------------------
(* Bounds of the model.                                                    *)

\* /run requests (threads) in the concurrent specification
MaxRequests == 2
\* businesses beyond MIN_CONTACTS in the long search result
LongExtra == 2
\* punctuation characters inserted into a phone number
MaxPunct == 2
\* leading digits put in front of the 9-digit phone stem
MaxLead == 3
\* e-mail candidates on a page
MaxCands == 3
\* text fragments on a page
MaxFrags == 3
\* threads that may be inside log_message at once
MaxLoggers == 2
\* log_message calls started in the log buffer specification
MaxAppends == 3

-----------------------------------------------------------------------------
(* Characters and Python string operations.                                *)

UpperChars == {"A","B","C","D","E","F","G","H","I","J","K","L","M",
               "N","O","P","Q","R","S","T","U","V","W","X","Y","Z"}
LowerChars == {"a","b","c","d","e","f","g","h","i","j","k","l","m",
               "n","o","p","q","r","s","t","u","v","w","x","y","z"}
DigitChars == {"0","1","2","3","4","5","6","7","8","9"}
\* \s of the re module (ASCII part)
WhiteSpace == {" ", "\t", "\n", "\r", "\f"}
\* \w of the re module (ASCII part)
WordChars  == UpperChars \cup LowerChars \cup DigitChars \cup {"_"}

IsUpper(c) == c \in UpperChars
IsLower(c) == c \in LowerChars
IsDigit(c) == c \in DigitChars
IsSpace(c) == c \in WhiteSpace
IsWord(c)  == c \in WordChars

LowerChar(c) ==
  CASE c = "A" -> "a" [] c = "B" -> "b" [] c = "C" -> "c" [] c = "D" -> "d"
    [] c = "E" -> "e" [] c = "F" -> "f" [] c = "G" -> "g" [] c = "H" -> "h"
    [] c = "I" -> "i" [] c = "J" -> "j" [] c = "K" -> "k" [] c = "L" -> "l"
    [] c = "M" -> "m" [] c = "N" -> "n" [] c = "O" -> "o" [] c = "P" -> "p"
    [] c = "Q" -> "q" [] c = "R" -> "r" [] c = "S" -> "s" [] c = "T" -> "t"
    [] c = "U" -> "u" [] c = "V" -> "v" [] c = "W" -> "w" [] c = "X" -> "x"
    [] c = "Y" -> "y" [] c = "Z" -> "z" [] OTHER -> c

\* str.lower()
Lower(s) == [i \in 1..Len(s) |-> LowerChar(s[i])]

\* sub in s
Contains(s, sub) ==
  \E i \in 1..(Len(s) - Len(sub) + 1) : SubSeq(s, i, i + Len(sub) - 1) = sub

SetMin(S) == CHOOSE x \in S : \A y \in S : x <= y
SetMax(S) == CHOOSE x \in S : \A y \in S : x >= y

\* str.strip()
Strip(s) ==
  LET keep == {i \in 1..Len(s) : ~IsSpace(s[i])}
  IN  IF keep = {} THEN << >> ELSE SubSeq(s, SetMin(keep), SetMax(keep))

\* str.replace(' ', '')
RemoveSpaces(s) == SelectSeq(s, LAMBDA c : c # " ")

\* str.split(".")
RECURSIVE SplitDots(_)
SplitDots(s) ==
  LET dots == {i \in 1..Len(s) : s[i] = "."}
  IN  IF dots = {} THEN << s >>
      ELSE LET d == SetMin(dots)
           IN  << SubSeq(s, 1, d - 1) >> \o SplitDots(SubSeq(s, d + 1, Len(s)))

\* re.sub(r"<[^>]*>", " ", s)
RECURSIVE StripTags(_)
StripTags(s) ==
  IF s = << >> THEN << >>
  ELSE LET closers == {i \in 2..Len(s) : s[i] = ">"}
       IN  IF s[1] = "<" /\ closers # {}
           THEN << " " >> \o StripTags(SubSeq(s, SetMin(closers) + 1, Len(s)))
           ELSE << s[1] >> \o StripTags(Tail(s))

\* re.sub(r"\s+", " ", s)
RECURSIVE CollapseSpaces(_)
CollapseSpaces(s) ==
  IF s = << >> THEN << >>
  ELSE IF IsSpace(s[1])
       THEN LET rest == {i \in 1..Len(s) : ~IsSpace(s[i])}
            IN  << " " >> \o (IF rest = {} THEN << >>
                              ELSE CollapseSpaces(SubSeq(s, SetMin(rest), Len(s))))
       ELSE << s[1] >> \o CollapseSpaces(Tail(s))

\* the last index of the run of [a-z] that starts at i (i - 1 when s[i] is
\* not in [a-z])
LowerRunEnd(s, i) ==
  SetMax({j \in (i - 1)..Len(s) : \A k \in i..j : IsLower(s[k])})

-----------------------------------------------------------------------------
(* Denylists, lines 26-141.                                                *)

AVOID_EMAILS ==
  { <<"j","o","h","n","d","o","e","@","e","x","a","m","p","l","e",".","c","o","m">>,
    <<"j","a","n","e","d","o","e","@","e","x","a","m","p","l","e",".","c","o","m">>,
    <<"y","o","u","r","n","a","m","e","@","e","x","a","m","p","l","e",".","c","o","m">>,
    <<"i","n","f","o","@","e","x","a","m","p","l","e",".","c","o","m">>,
    <<"c","o","n","t","a","c","t","@","e","x","a","m","p","l","e",".","c","o","m">>,
    <<"h","e","l","l","o","@","e","x","a","m","p","l","e",".","c","o","m">>,
    <<"a","d","m","i","n","@","e","x","a","m","p","l","e",".","c","o","m">>,
    <<"s","u","p","p","o","r","t","@","e","x","a","m","p","l","e",".","c","o","m">>,
    <<"u","s","e","r","@","e","x","a","m","p","l","e",".","c","o","m">>,
    <<"p","e","r","s","o","n","@","e","x","a","m","p","l","e",".","c","o","m">>,
    <<"f","i","r","s","t","n","a","m","e",".","l","a","s","t","n","a","m","e","@","e","x","a","m","p","l","e",".","c","o","m">>,
    <<"n","a","m","e","@","c","o","m","p","a","n","y",".","c","o","m">>,
    <<"m","e","@","e","x","a","m","p","l","e",".","c","o","m">>,
    <<"t","e","a","m","@","e","x","a","m","p","l","e",".","c","o","m">>,
    <<"d","e","m","o","@","e","x","a","m","p","l","e",".","c","o","m">>,
    <<"t","e","s","t","@","e","x","a","m","p","l","e",".","c","o","m">>,
    <<"s","a","m","p","l","e","@","e","x","a","m","p","l","e",".","c","o","m">>,
    <<"e","m","a","i","l","@","e","x","a","m","p","l","e",".","c","o","m">>,
    <<"m","y","e","m","a","i","l","@","e","x","a","m","p","l","e",".","c","o","m">>,
    <<"u","s","e","r","1","2","3","@","e","x","a","m","p","l","e",".","c","o","m">>,
    <<"c","o","n","t","a","c","t","u","s","@","e","x","a","m","p","l","e",".","c","o","m">>,
    <<"i","n","f","o","@","c","o","m","p","a","n","y",".","c","o","m">>,
    <<"h","e","l","l","o","@","b","r","a","n","d",".","c","o","m">>,
    <<"s","u","p","p","o","r","t","@","s","e","r","v","i","c","e",".","c","o","m">>,
    <<"a","d","m","i","n","@","b","u","s","i","n","e","s","s",".","c","o","m">>,
    <<"s","a","l","e","s","@","e","x","a","m","p","l","e",".","c","o","m">>,
    <<"m","a","r","k","e","t","i","n","g","@","e","x","a","m","p","l","e",".","c","o","m">>,
    <<"o","f","f","i","c","e","@","e","x","a","m","p","l","e",".","c","o","m">>,
    <<"c","u","s","t","o","m","e","r","s","e","r","v","i","c","e","@","e","x","a","m","p","l","e",".","c","o","m">>,
    <<"f","e","e","d","b","a","c","k","@","e","x","a","m","p","l","e",".","c","o","m">>,
    <<"h","e","l","p","@","e","x","a","m","p","l","e",".","c","o","m">>,
    <<"t","e","a","m","@","c","o","m","p","a","n","y",".","c","o","m">>,
    <<"i","n","q","u","i","r","i","e","s","@","e","x","a","m","p","l","e",".","c","o","m">>,
    <<"p","r","e","s","s","@","e","x","a","m","p","l","e",".","c","o","m">>,
    <<"h","r","@","e","x","a","m","p","l","e",".","c","o","m">>,
    <<"c","a","r","e","e","r","s","@","e","x","a","m","p","l","e",".","c","o","m">>,
    <<"o","w","n","e","r","@","e","x","a","m","p","l","e",".","c","o","m">>,
    <<"s","t","a","f","f","@","e","x","a","m","p","l","e",".","c","o","m">>,
    <<"a","c","c","o","u","n","t","@","e","x","a","m","p","l","e",".","c","o","m">>,
    <<"s","e","r","v","i","c","e","@","e","x","a","m","p","l","e",".","c","o","m">>,
    <<"b","i","l","l","i","n","g","@","e","x","a","m","p","l","e",".","c","o","m">>,
    <<"m","e","d","i","a","@","e","x","a","m","p","l","e",".","c","o","m">>,
    <<"i","n","f","o","@","d","o","m","a","i","n",".","c","o","m">>,
    <<"c","o","n","t","a","c","t","@","d","o","m","a","i","n",".","c","o","m">>,
    <<"s","u","p","p","o","r","t","@","d","o","m","a","i","n",".","c","o","m">>,
    <<"h","e","l","l","o","@","d","o","m","a","i","n",".","c","o","m">>,
    <<"d","e","m","o","@","d","o","m","a","i","n",".","c","o","m">>,
    <<"t","e","s","t","@","d","o","m","a","i","n",".","c","o","m">>,
    <<"n","a","m","e","@","d","o","m","a","i","n",".","c","o","m">>,
    <<"u","s","e","r","@","d","o","m","a","i","n",".","c","o","m">>,
    <<"e","m","a","i","l","@","d","o","m","a","i","n",".","c","o","m">>,
    <<"f","e","e","d","b","a","c","k","@","d","o","m","a","i","n",".","c","o","m">>,
    <<"i","n","f","o","@","w","e","b","s","i","t","e",".","c","o","m">>,
    <<"c","o","n","t","a","c","t","@","w","e","b","s","i","t","e",".","c","o","m">>,
    <<"s","u","p","p","o","r","t","@","w","e","b","s","i","t","e",".","c","o","m">>,
    <<"h","e","l","l","o","@","w","e","b","s","i","t","e",".","c","o","m">>,
    <<"s","a","l","e","s","@","w","e","b","s","i","t","e",".","c","o","m">>,
    <<"n","a","m","e","@","w","e","b","s","i","t","e",".","c","o","m">>,
    <<"u","s","e","r","@","w","e","b","s","i","t","e",".","c","o","m">>,
    <<"m","y","n","a","m","e","@","w","e","b","s","i","t","e",".","c","o","m">>,
    <<"y","o","u","r","n","a","m","e","@","w","e","b","s","i","t","e",".","c","o","m">>,
    <<"e","x","a","m","p","l","e","@","w","e","b","s","i","t","e",".","c","o","m">>,
    <<"t","e","s","t","@","w","e","b","s","i","t","e",".","c","o","m">>,
    <<"j","a","n","e",".","d","o","e","@","w","e","b","s","i","t","e",".","c","o","m">>,
    <<"j","o","h","n",".","d","o","e","@","w","e","b","s","i","t","e",".","c","o","m">>,
    <<"f","i","r","s","t","n","a","m","e","@","w","e","b","s","i","t","e",".","c","o","m">>,
    <<"l","a","s","t","n","a","m","e","@","w","e","b","s","i","t","e",".","c","o","m">>,
    <<"c","o","n","t","a","c","t","m","e","@","w","e","b","s","i","t","e",".","c","o","m">>,
    <<"s","a","y","h","e","l","l","o","@","w","e","b","s","i","t","e",".","c","o","m">>,
    <<"r","e","a","c","h","o","u","t","@","w","e","b","s","i","t","e",".","c","o","m">>,
    <<"c","o","n","t","a","c","t","f","o","r","m","@","w","e","b","s","i","t","e",".","c","o","m">>,
    <<"i","n","f","o","@","m","y","s","i","t","e",".","c","o","m">>,
    <<"a","d","m","i","n","@","m","y","s","i","t","e",".","c","o","m">>,
    <<"h","e","l","p","@","m","y","s","i","t","e",".","c","o","m">>,
    <<"d","e","m","o","@","m","y","s","i","t","e",".","c","o","m">>,
    <<"u","s","e","r","@","m","y","s","i","t","e",".","c","o","m">>,
    <<"s","u","p","p","o","r","t","@","m","y","s","i","t","e",".","c","o","m">>,
    <<"h","e","l","l","o","@","m","y","s","i","t","e",".","c","o","m">>,
    <<"i","n","f","o","@","e","m","a","i","l",".","c","o","m">>,
    <<"c","o","n","t","a","c","t","@","e","m","a","i","l",".","c","o","m">>,
    <<"e","x","a","m","p","l","e","@","e","m","a","i","l",".","c","o","m">>,
    <<"u","s","e","r","@","e","m","a","i","l",".","c","o","m">>,
    <<"n","a","m","e","@","e","m","a","i","l",".","c","o","m">>,
    <<"t","e","s","t","@","e","m","a","i","l",".","c","o","m">>,
    <<"i","n","f","o","@","s","a","m","p","l","e",".","c","o","m">>,
    <<"c","o","n","t","a","c","t","@","s","a","m","p","l","e",".","c","o","m">>,
    <<"u","s","e","r","@","s","a","m","p","l","e",".","c","o","m">>,
    <<"h","e","l","l","o","@","s","a","m","p","l","e",".","c","o","m">>,
    <<"n","a","m","e","@","s","a","m","p","l","e",".","c","o","m">>,
    <<"d","e","m","o","@","s","a","m","p","l","e",".","c","o","m">>,
    <<"c","o","n","t","a","c","t","@","d","e","m","o",".","c","o","m">>,
    <<"i","n","f","o","@","d","e","m","o",".","c","o","m">>,
    <<"u","s","e","r","@","d","e","m","o",".","c","o","m">>,
    <<"h","e","l","l","o","@","d","e","m","o",".","c","o","m">>,
    <<"n","a","m","e","@","d","e","m","o",".","c","o","m">>,
    <<"t","e","s","t","@","d","e","m","o",".","c","o","m">>,
    <<"s","o","m","e","o","n","e","@","e","x","a","m","p","l","e",".","c","o","m">>,
    <<"y","o","u","@","e","x","a","m","p","l","e",".","c","o","m">>,
    <<"y","o","u","r",".","e","m","a","i","l","@","e","x","a","m","p","l","e",".","c","o","m">>,
    <<"c","o","n","t","a","c","t","p","e","r","s","o","n","@","e","x","a","m","p","l","e",".","c","o","m">> }

BAD_EMAIL_SUBSTRINGS ==
  { <<"e","x","a","m","p","l","e",".","c","o","m">>,
    <<"w","i","x","p","r","e","s","s">>,
    <<"s","e","n","t","r","y">>,
    <<"s","c","h","e","m","a",".","o","r","g">>,
    <<"d","o","m","a","i","n",".","c","o","m">>,
    <<"w","e","b","s","i","t","e",".","c","o","m">>,
    <<"m","y","s","i","t","e",".","c","o","m">>,
    <<"e","m","a","i","l",".","c","o","m">>,
    <<"s","a","m","p","l","e",".","c","o","m">>,
    <<"d","e","m","o",".","c","o","m">> }

-----------------------------------------------------------------------------
(* normalize_phone_for_sms, lines 217-236.                                 *)

\* a plausible slip: the 11-digit branch prefixes "+1" like the 10-digit one
normalize_phone_keep_lead(raw) ==
  IF raw = << >> THEN << >>
  ELSE LET digits == SelectSeq(raw, IsDigit)
       IN  IF Len(digits) = 10 THEN <<"+","1">> \o digits
           ELSE IF Len(digits) = 11 /\ digits[1] = "1" THEN <<"+","1">> \o digits
           ELSE raw

normalize_phone_for_sms(raw) ==
  IF raw = << >> THEN << >>
  ELSE LET digits == SelectSeq(raw, IsDigit)
       IN  IF Len(digits) = 10 THEN <<"+","1">> \o digits
           ELSE IF Len(digits) = 11 /\ digits[1] = "1" THEN <<"+">> \o digits
           ELSE raw

-----------------------------------------------------------------------------
(* find_email_on_website, the scan of lines 248-254 and 257.               *)

\* a plausible slip: the denylists are consulted without lowercasing
RECURSIVE ScanEmailsCaseSensitive(_)
ScanEmailsCaseSensitive(emails) ==
  IF emails = << >> THEN << >>
  ELSE LET e == Head(emails)
       IN  IF e \in AVOID_EMAILS THEN ScanEmailsCaseSensitive(Tail(emails))
           ELSE IF \E bad \in BAD_EMAIL_SUBSTRINGS : Contains(e, bad)
                THEN ScanEmailsCaseSensitive(Tail(emails))
           ELSE e

RECURSIVE ScanEmailsLoop(_)
ScanEmailsLoop(emails) ==
  IF emails = << >> THEN << >>
  ELSE LET e == Head(emails)
           e_lower == Lower(e)
       IN  IF e_lower \in AVOID_EMAILS THEN ScanEmailsLoop(Tail(emails))
           ELSE IF \E bad \in BAD_EMAIL_SUBSTRINGS : Contains(e_lower, bad)
                THEN ScanEmailsLoop(Tail(emails))
           ELSE e

ScanEmails(emails) == ScanEmailsLoop(emails)

-----------------------------------------------------------------------------
(* find_owner_name_and_phone, the parse of lines 265-280.                  *)

owner_keywords ==
  { <<"o","w","n","e","r">>, <<"c","e","o">>, <<"f","o","u","n","d","e","r">>, <<"m","a","n","a","g","e","r">>, <<"d","i","r","e","c","t","o","r">>, <<"p","r","e","s","i","d","e","n","t">> }

HasOwnerKeyword(line) == \E k \in owner_keywords : Contains(Lower(line), k)

\* re.search(r"\b([A-Z][a-z]+ [A-Z][a-z]+)\b", line) anchored at i: the index
\* of the last matched character, 0 when there is no match at i.  Both
\* [a-z]+ are greedy and no shorter run can be followed by " " or by \b.
NameMatchEnd(line, i) ==
  LET a == LowerRunEnd(line, i + 1)
      b == LowerRunEnd(line, a + 3)
  IN  IF /\ IsUpper(line[i])
         /\ (i = 1 \/ ~IsWord(line[i - 1]))
         /\ a >= i + 1
         /\ a + 2 <= Len(line)
         /\ line[a + 1] = " "
         /\ IsUpper(line[a + 2])
         /\ b >= a + 3
         /\ (b = Len(line) \/ ~IsWord(line[b + 1]))
      THEN b ELSE 0

\* nm.group(1) of the leftmost match, << >> when re.search returns None
NameSearch(line) ==
  LET starts == {i \in 1..Len(line) : NameMatchEnd(line, i) > 0}
  IN  IF starts = {} THEN << >>
      ELSE SubSeq(line, SetMin(starts), NameMatchEnd(line, SetMin(starts)))

PhoneSeparators == {"-", "."} \cup WhiteSpace

AllDigits(s, from, n) ==
  from + n - 1 <= Len(s) /\ \A k \in from..(from + n - 1) : IsDigit(s[k])

\* re.search(r"\(?\d{3}\)?[-.\s]?\d{3}[-.\s]?\d{4}", txt) anchored at i: the
\* index of the last matched character, 0 when there is no match at i.  Each
\* optional item is one character that no later item can match, so taking it
\* when present is the only way to match.
PhoneMatchEnd(txt, i) ==
  LET p1 == IF txt[i] = "(" THEN i + 1 ELSE i
      p2 == p1 + 3
      p3 == IF p2 <= Len(txt) /\ txt[p2] = ")" THEN p2 + 1 ELSE p2
      p4 == IF p3 <= Len(txt) /\ txt[p3] \in PhoneSeparators THEN p3 + 1 ELSE p3
      p5 == p4 + 3
      p6 == IF p5 <= Len(txt) /\ txt[p5] \in PhoneSeparators THEN p5 + 1 ELSE p5
  IN  IF AllDigits(txt, p1, 3) /\ AllDigits(txt, p4, 3) /\ AllDigits(txt, p6, 4)
      THEN p6 + 3 ELSE 0

\* ph_match.group(0) if ph_match else ""
PhoneSearch(txt) ==
  LET starts == {i \in 1..Len(txt) : PhoneMatchEnd(txt, i) > 0}
  IN  IF starts = {} THEN << >>
      ELSE SubSeq(txt, SetMin(starts), PhoneMatchEnd(txt, SetMin(starts)))

\* a plausible slip: the scan gives up at the first keyword segment
RECURSIVE OwnerScanFirstSegmentOnly(_)
OwnerScanFirstSegmentOnly(segments) ==
  IF segments = << >> THEN << >>
  ELSE IF HasOwnerKeyword(Head(segments)) THEN NameSearch(Head(segments))
       ELSE OwnerScanFirstSegmentOnly(Tail(segments))

\* the for loop of lines 270-276: the name it returns, << >> when it falls through
RECURSIVE OwnerScan(_)
OwnerScan(segments) ==
  IF segments = << >> THEN << >>
  ELSE LET line == Head(segments)
           nm == NameSearch(line)
       IN  IF HasOwnerKeyword(line) /\ nm # << >> THEN nm
           ELSE OwnerScan(Tail(segments))

\* txt of lines 265-266
CleanText(text) == CollapseSpaces(StripTags(text))

\* the value returned by lines 265-280 for a response body: <<owner, phone>>
ParseOwnerAndPhone(text) ==
  LET txt == CleanText(text)
  IN  << OwnerScan(SplitDots(txt)), PhoneSearch(txt) >>

-----------------------------------------------------------------------------
(* Program constants.                                                      *)

TIMEOUT_SECONDS == 180
MIN_CONTACTS == 30
MAX_BUSINESSES == 400
\* the bound of scraper_logs in log_message
LOG_LIMIT == 400
\* listIds of add_to_brevo
LIST_WITH_EMAIL == 3
LIST_NO_EMAIL == 5

-----------------------------------------------------------------------------
(* log_message, lines 147-153.  An entry is the message with its           *)
(* arguments; the timestamp prefix is left out.                            *)

LogEntry(msg, url, text, n) == [msg |-> msg, url |-> url, text |-> text, n |-> n]

\* line 151
LogAppend(logs, entry) == Append(logs, entry)

\* a plausible slip: the newest entry is dropped instead of the oldest
LogPopNewest(logs) == SubSeq(logs, 1, Len(logs) - 1)

\* line 153: scraper_logs.pop(0)
LogPop(logs) == Tail(logs)

\* line 152
LogOverLimit(logs) == Len(logs) > LOG_LIMIT

\* the whole of log_message, run without interruption
log_message(logs, entry) ==
  LET l == LogAppend(logs, entry)
  IN  IF LogOverLimit(l) THEN LogPop(l) ELSE l

RECURSIVE LogAll(_, _)
LogAll(logs, entries) ==
  IF entries = << >> THEN logs
  ELSE LogAll(log_message(logs, Head(entries)), Tail(entries))

-----------------------------------------------------------------------------
(* The world outside: search listings and the pages behind the URLs.       *)

Listing(name, website, phone) ==
  [name |-> name, website |-> website, phone |-> phone]

AcePlumbing == Listing(<<"A","c","e">>, "http://ace.test", <<"8","0","4","-","5","5","5","-","1","2","3","4">>)
AceHome     == Listing(<<"A","c","e">>, "http://ace.test/home", <<"8","0","4","-","5","5","5","-","1","2","3","4">>)
Acme        == Listing(<<"A","c","m","e">>, "http://acme.test", << >>)
Bo          == Listing(<<"B","o">>, "", << >>)

\* what re.findall (line 247) finds in the page behind a URL
SiteEmails(url) ==
  CASE url = "http://ace.test"      -> << <<"i","n","f","o","@","e","x","a","m","p","l","e",".","c","o","m">>, <<"B","o","b","@","A","c","e",".","c","o","m">> >>
    [] url = "http://ace.test/home" -> << <<"B","o","b","@","A","c","e",".","c","o","m">> >>
    [] url = "http://acme.test"     -> << <<"b","o","b","@","a","c","e",".","c","o","m">> >>
    [] OTHER                        -> << >>

\* r.text (line 264) of the page behind a URL
SiteText(url) ==
  CASE url = "http://ace.test"      -> <<"<","p",">","O","u","r"," ","o","w","n","e","r"," ","J","a","n","e"," ","S","m","i","t","h",".","<","/","p",">"," ","C","a","l","l"," ","(","8","0","4",")"," ","5","5","5","-","9","9","9","9">>
    [] url = "http://ace.test/home" -> <<"M","e","e","t"," ","t","h","e"," ","f","o","u","n","d","e","r","."," ","J","a","n","e"," ","S","m","i","t","h">>
    [] url = "http://acme.test"     -> <<"W","e","l","c","o","m","e"," ","t","o"," ","A","c","m","e">>
    [] OTHER                        -> << >>

DigitChar(d) == << "0","1","2","3","4","5","6","7","8","9" >>[d + 1]

\* the i-th listing of a long search result: no website, its own name
LongListing(i) ==
  Listing(<< "N", DigitChar(i \div 10), DigitChar(i % 10) >>, "", <<"8","0","4","-","5","5","5","-","0","0","0","0">>)

LongResult == [i \in 1..(MIN_CONTACTS + LongExtra) |-> LongListing(i)]

\* the listings one call of get_businesses_from_google may return
ShortResults ==
  { << >>, << AcePlumbing, AceHome >>, << AcePlumbing, Acme >>,
    << Bo, AcePlumbing, AcePlumbing >> }

OneRunResults == ShortResults \cup { LongResult }

ConcurrentResults == { << AcePlumbing >> }

RECURSIVE SeqsUpTo(_, _)
SeqsUpTo(S, n) ==
  IF n = 0 THEN { << >> }
  ELSE LET shorter == SeqsUpTo(S, n - 1)
       IN  shorter \cup { Append(s, x) : s \in shorter, x \in S }

\* request.args.getlist("categories"), line 667
CategoryLists == { << >>, << "plumber" >>, << "plumber", "cafe" >> }

\* the values time.time() - start_time is sampled at
ClockSamples == { 0, TIMEOUT_SECONDS, TIMEOUT_SECONDS + 1 }

-----------------------------------------------------------------------------
(* The functions run_scraper_process calls.  Each returns what the call    *)
(* returns (ret), the entries it logs (logs) and whether an exception      *)
(* leaves it (raised).                                                     *)

Outcome(ret, logs, raised) == [ret |-> ret, logs |-> logs, raised |-> raised]

\* get_businesses_from_google, lines 159-211.  ok = FALSE: a request or the
\* decoding of its answer raises (nothing in the function catches it).
get_businesses_from_google(category, ok, listing) ==
  LET searching == LogEntry("Searching", category, << >>, 0)
  IN  IF ~ok THEN Outcome(<< >>, << searching >>, TRUE)
      ELSE Outcome([i \in 1..Len(listing) |->
                      [name |-> listing[i].name, website |-> listing[i].website,
                       phone |-> listing[i].phone, category |-> category]],
                   << searching,
                      LogEntry("Retrieved results", category, << >>, Len(listing)) >>,
                   FALSE)

\* a plausible slip: no try/except around the fetch
find_email_on_website_unguarded(url, ok, emails) ==
  IF url = "" THEN Outcome(<< >>, << >>, FALSE)
  ELSE IF ok THEN Outcome(ScanEmails(emails), << >>, FALSE)
  ELSE Outcome(<< >>, << >>, TRUE)

\* find_email_on_website, lines 242-257.  ok = FALSE: the fetch or the scan
\* raises inside the try block.
find_email_on_website(url, ok, emails) ==
  IF url = "" THEN Outcome(<< >>, << >>, FALSE)
  ELSE IF ok THEN Outcome(ScanEmails(emails), << >>, FALSE)
  ELSE Outcome(<< >>, << LogEntry("Error scanning for email", url, << >>, 0) >>, FALSE)

\* find_owner_name_and_phone, lines 260-283: ret is <<owner, phone>>
find_owner_name_and_phone(url, ok, text) ==
  IF url = "" THEN Outcome(<< << >>, << >> >>, << >>, FALSE)
  ELSE IF ok THEN Outcome(ParseOwnerAndPhone(text), << >>, FALSE)
  ELSE Outcome(<< << >>, << >> >>,
               << LogEntry("Error parsing for owner/phone", url, << >>, 0) >>, FALSE)

\* line 327
BrevoList(has_email) == IF has_email THEN LIST_WITH_EMAIL ELSE LIST_NO_EMAIL

\* add_to_brevo, lines 289-335.  ok = FALSE: requests.post raises (nothing
\* catches it).  ret is the payload; sms = << >> stands for "no sms key".
\* The status code of the answer is only logged and is left out.
add_to_brevo(contact, has_email, ok) ==
  LET raw      == Strip(contact.phone)
      sms      == normalize_phone_for_sms(raw)
      first    == IF contact.owner_name # << >> THEN contact.owner_name
                  ELSE contact.name
      email_value == IF has_email THEN contact.email
                     ELSE Lower(RemoveSpaces(contact.name)) \o <<"@","p","l","a","c","e","h","o","l","d","e","r",".","c","o","m">>
      payload  == [email |-> email_value, FIRSTNAME |-> first,
                   COMPANY |-> contact.name, PHONE |-> raw,
                   WEBSITE |-> contact.website, sms |-> sms,
                   listId |-> BrevoList(has_email)]
  IN  IF ~ok THEN Outcome(payload, << >>, TRUE)
      ELSE Outcome(payload,
                   << LogEntry("Added to Brevo", "", email_value, BrevoList(has_email)) >>,
                   FALSE)

\* lines 368-372, with seen_business_keys the keys of all_businesses
RECURSIVE AddUnique(_, _)
AddUnique(all_businesses, biz_list) ==
  IF biz_list = << >> THEN all_businesses
  ELSE LET b == Head(biz_list)
           seen_business_keys ==
             { << all_businesses[i].name, all_businesses[i].website >> :
                 i \in 1..Len(all_businesses) }
       IN  IF << b.name, b.website >> \notin seen_business_keys
           THEN AddUnique(Append(all_businesses, b), Tail(biz_list))
           ELSE AddUnique(all_businesses, Tail(biz_list))

\* a plausible slip: "or" in place of "and"
ProcessingTimedOutEither(elapsed, uploaded) ==
  elapsed > TIMEOUT_SECONDS \/ uploaded >= MIN_CONTACTS

\* line 385
ProcessingTimedOut(elapsed, uploaded) ==
  elapsed > TIMEOUT_SECONDS /\ uploaded >= MIN_CONTACTS

\* line 363
GatheringTimedOut(elapsed, collected) ==
  elapsed > TIMEOUT_SECONDS /\ collected >= MIN_CONTACTS

\* line 395: phone_from_site or base_phone
FinalPhone(phone_from_site, base_phone) ==
  IF phone_from_site # << >> THEN phone_from_site ELSE base_phone

\* lines 413-423 and 428-438
ExcelRow(biz, email, final_phone, owner, list) ==
  [business_name |-> biz.name, email |-> email, phone |-> final_phone,
   website |-> biz.website, owner_name |-> owner, category |-> biz.category,
   list |-> list]

-----------------------------------------------------------------------------
(* run_scraper_process, lines 341-453, one thread per /run request         *)
(* (line 673).  The steps are cut where another thread can observe or      *)
(* change the module globals.                                              *)

Threads == 1..MaxRequests

FreshThread ==
  [pc |-> "idle", categories |-> << >>, cat_i |-> 1, elapsed |-> 0,
   all_businesses |-> << >>, biz_i |-> 1, email |-> << >>, owner |-> << >>,
   phone_from_site |-> << >>, uploaded |-> 0, rows_for_excel |-> << >>,
   email_fetch |-> "none", owner_fetch |-> "none", crash_at |-> "none"]

InitRun ==
  /\ scraper_in_progress = FALSE
  /\ scraper_logs = << >>
  /\ seen_emails = {}
  /\ th = [t \in Threads |-> FreshThread]
  /\ brevo_calls = [t \in Threads |-> << >>]
  /\ processed = [t \in Threads |-> << >>]

IdleLog ==
  /\ lg = << >>
  /\ appended = << >>
  /\ observed = << >>

IdlePure ==
  /\ raw_phone = << >>
  /\ phone_digits = << >>
  /\ sms_phone = << >>
  /\ page_emails = << >>
  /\ found_email = << >>
  /\ page_text = << >>
  /\ owner_phone = << << >>, << >> >>
  /\ fn_done = FALSE

Init == InitRun /\ IdleLog /\ IdlePure

Crash(r, where) == [r EXCEPT !.pc = "crashed", !.crash_at = where]

\* run_scraper, lines 665-673: the handler starts a thread and returns
Request(t, cats) ==
  /\ th[t].pc = "idle"
  /\ IF t = 1 THEN TRUE ELSE th[t - 1].pc # "idle"
  /\ th' = [th EXCEPT ![t].pc = "guard", ![t].categories = cats]
  /\ UNCHANGED << scraper_in_progress, scraper_logs, seen_emails, brevo_calls,
                  processed, logVars, pureVars >>

\* lines 343-345: the test of the flag
CheckGuard(t) ==
  /\ th[t].pc = "guard"
  /\ IF scraper_in_progress
     THEN /\ scraper_logs' = log_message(scraper_logs,
                               LogEntry("A scraper is already running", "", << >>, 0))
          /\ th' = [th EXCEPT ![t].pc = "returned"]
     ELSE /\ scraper_logs' = scraper_logs
          /\ th' = [th EXCEPT ![t].pc = "enter"]
  /\ UNCHANGED << scraper_in_progress, seen_emails, brevo_calls, processed,
                  logVars, pureVars >>

\* lines 347-359
Enter(t) ==
  /\ th[t].pc = "enter"
  /\ scraper_in_progress' = TRUE
  /\ scraper_logs' = log_message(<< >>, LogEntry("Scraper started", "", << >>, 0))
  /\ seen_emails' = {}
  /\ th' = [th EXCEPT ![t].pc = "gather", ![t].elapsed = 0,
                      ![t].all_businesses = << >>, ![t].cat_i = 1]
  /\ UNCHANGED << brevo_calls, processed, logVars, pureVars >>

\* the clock of time.time() - start_time moves on; it is read at the heads of
\* the two loops only (lines 363 and 385), so it moves there
AdvanceClock(t) ==
  /\ th[t].pc \in {"gather", "loop"}
  /\ \E s \in ClockSamples :
       /\ s > th[t].elapsed
       /\ th' = [th EXCEPT ![t].elapsed = s]
  /\ UNCHANGED << scraper_in_progress, scraper_logs, seen_emails, brevo_calls,
                  processed, logVars, pureVars >>

\* lines 362-376: one pass of the category loop
Gather(t, results) ==
  LET r == th[t]
  IN  /\ r.pc = "gather"
      /\ r.cat_i <= Len(r.categories)
      /\ ~GatheringTimedOut(r.elapsed, Len(r.all_businesses))
      /\ \E ok \in BOOLEAN, listing \in results :
           LET o   == get_businesses_from_google(r.categories[r.cat_i], ok, listing)
               all == AddUnique(r.all_businesses, o.ret)
               hit == Len(all) >= MAX_BUSINESSES
           IN  IF o.raised
               THEN /\ scraper_logs' = LogAll(scraper_logs, o.logs)
                    /\ th' = [th EXCEPT ![t] = Crash(r, "search")]
               ELSE /\ scraper_logs' =
                         LogAll(scraper_logs,
                                o.logs \o (IF hit
                                           THEN << LogEntry("Hit MAX_BUSINESSES limit", "", << >>,
                                                            MAX_BUSINESSES) >>
                                           ELSE << >>))
                    /\ th' = [th EXCEPT ![t].all_businesses = all,
                                        ![t].cat_i = IF hit THEN Len(r.categories) + 1
                                                     ELSE r.cat_i + 1]
      /\ UNCHANGED << scraper_in_progress, seen_emails, brevo_calls, processed,
                      logVars, pureVars >>

\* lines 363-365 (the break) and 378-382: the category loop is left
GatherDone(t) ==
  LET r == th[t]
      timed_out == /\ r.cat_i <= Len(r.categories)
                   /\ GatheringTimedOut(r.elapsed, Len(r.all_businesses))
  IN  /\ r.pc = "gather"
      /\ (IF r.cat_i > Len(r.categories) THEN TRUE ELSE timed_out)
      /\ scraper_logs' =
           LogAll(scraper_logs,
                  (IF timed_out
                   THEN << LogEntry("Timeout reached while fetching businesses", "", << >>, 0) >>
                   ELSE << >>)
                  \o << LogEntry("Total unique businesses collected", "", << >>,
                                 Len(r.all_businesses)) >>)
      /\ th' = [th EXCEPT ![t].pc = "loop", ![t].biz_i = 1, ![t].uploaded = 0,
                          ![t].rows_for_excel = << >>]
      /\ UNCHANGED << scraper_in_progress, seen_emails, brevo_calls, processed,
                      logVars, pureVars >>

\* lines 384-387: the head of the processing loop
LoopHead(t) ==
  LET r == th[t]
  IN  /\ r.pc = "loop"
      /\ IF r.biz_i > Len(r.all_businesses)
         THEN /\ th' = [th EXCEPT ![t].pc = "save"]
              /\ scraper_logs' = scraper_logs
         ELSE IF ProcessingTimedOut(r.elapsed, r.uploaded)
         THEN /\ th' = [th EXCEPT ![t].pc = "save"]
              /\ scraper_logs' =
                   log_message(scraper_logs,
                               LogEntry("Timeout reached during processing", "", << >>, 0))
         ELSE /\ th' = [th EXCEPT ![t].pc = "email"]
              /\ scraper_logs' = scraper_logs
      /\ UNCHANGED << scraper_in_progress, seen_emails, brevo_calls, processed,
                      logVars, pureVars >>

FetchStatus(url, ok) == IF url = "" THEN "none" ELSE IF ok THEN "ok" ELSE "error"

\* lines 389-392
FetchEmail(t) ==
  LET r   == th[t]
      biz == r.all_businesses[r.biz_i]
  IN  /\ r.pc = "email"
      /\ \E ok \in BOOLEAN :
           LET o == find_email_on_website(biz.website, ok, SiteEmails(biz.website))
           IN  /\ scraper_logs' = LogAll(scraper_logs, o.logs)
               /\ th' = IF o.raised
                        THEN [th EXCEPT ![t] = Crash(r, "email")]
                        ELSE [th EXCEPT ![t].pc = "owner", ![t].email = o.ret,
                                        ![t].email_fetch = FetchStatus(biz.website, ok)]
      /\ UNCHANGED << scraper_in_progress, seen_emails, brevo_calls, processed,
                      logVars, pureVars >>

\* line 393
FetchOwner(t) ==
  LET r   == th[t]
      biz == r.all_businesses[r.biz_i]
  IN  /\ r.pc = "owner"
      /\ \E ok \in BOOLEAN :
           LET o == find_owner_name_and_phone(biz.website, ok, SiteText(biz.website))
           IN  /\ scraper_logs' = LogAll(scraper_logs, o.logs)
               /\ th' = IF o.raised
                        THEN [th EXCEPT ![t] = Crash(r, "owner")]
                        ELSE [th EXCEPT ![t].pc = "upload", ![t].owner = o.ret[1],
                                        ![t].phone_from_site = o.ret[2],
                                        ![t].owner_fetch = FetchStatus(biz.website, ok)]
      /\ UNCHANGED << scraper_in_progress, seen_emails, brevo_calls, processed,
                      logVars, pureVars >>

\* what the loop body did with one business
Processed(r, biz, contact, outcome) ==
  [biz |-> biz, contact |-> contact, phone_from_site |-> r.phone_from_site,
   email_fetch |-> r.email_fetch, owner_fetch |-> r.owner_fetch,
   outcome |-> outcome]

\* lines 395-440: the contact, the duplicate test, the upload, the row
Upload(t) ==
  LET r   == th[t]
      biz == r.all_businesses[r.biz_i]
      final_phone == FinalPhone(r.phone_from_site, biz.phone)
      contact == [name |-> biz.name, phone |-> final_phone, website |-> biz.website,
                  email |-> r.email, owner_name |-> r.owner]
      has_email == r.email # << >>
      list == IF has_email THEN "3" ELSE "5"
  IN  /\ r.pc = "upload"
      /\ \E ok \in BOOLEAN :
           IF has_email /\ r.email \in seen_emails
           THEN /\ scraper_logs' =
                     log_message(scraper_logs,
                                 LogEntry("Duplicate skipped before upload", "", r.email, 0))
                /\ th' = [th EXCEPT ![t].pc = "loop", ![t].biz_i = r.biz_i + 1]
                /\ processed' = [processed EXCEPT
                                   ![t] = Append(@, Processed(r, biz, contact, "duplicate"))]
                /\ UNCHANGED << seen_emails, brevo_calls >>
           ELSE LET o == add_to_brevo(contact, has_email, ok)
                IN  /\ brevo_calls' =
                         [brevo_calls EXCEPT
                            ![t] = Append(@, [contact |-> contact, has_email |-> has_email,
                                              payload |-> o.ret])]
                    /\ IF o.raised
                       THEN /\ scraper_logs' = LogAll(scraper_logs, o.logs)
                            /\ th' = [th EXCEPT ![t] = Crash(r, "upload")]
                            /\ processed' = [processed EXCEPT
                                               ![t] = Append(@, Processed(r, biz, contact, "raised"))]
                            /\ seen_emails' = seen_emails
                       ELSE /\ scraper_logs' =
                                 LogAll(scraper_logs,
                                        o.logs \o << LogEntry("Uploaded to list", list,
                                                              biz.name, 0) >>)
                            /\ seen_emails' = IF has_email THEN seen_emails \cup {r.email}
                                              ELSE seen_emails
                            /\ th' = [th EXCEPT
                                        ![t].pc = "loop", ![t].biz_i = r.biz_i + 1,
                                        ![t].uploaded = r.uploaded + 1,
                                        ![t].rows_for_excel =
                                           Append(@, ExcelRow(biz, r.email, final_phone,
                                                              r.owner, list))]
                            /\ processed' = [processed EXCEPT
                                               ![t] = Append(@, Processed(r, biz, contact, list))]
      /\ UNCHANGED << scraper_in_progress, logVars, pureVars >>

\* lines 443-453: the export (whose failure is caught) and the end of the run
SaveExcel(t) ==
  LET r == th[t]
  IN  /\ r.pc = "save"
      /\ \E ok \in BOOLEAN :
           scraper_logs' =
             LogAll(scraper_logs,
                    << LogEntry(IF ok THEN "Saved" ELSE "Failed to save Excel", "", << >>, 0),
                       LogEntry("Finished", "", << >>, r.uploaded) >>)
      /\ scraper_in_progress' = FALSE
      /\ th' = [th EXCEPT ![t].pc = "finished"]
      /\ UNCHANGED << seen_emails, brevo_calls, processed, logVars, pureVars >>

ConcurrentCategoryLists == { << "plumber" >> }

\* Up to MaxRequests /run requests, each on its own thread.  The listings
\* here are far shorter than MIN_CONTACTS, so the clock decides nothing and
\* stays at the start value; SpecOneRun moves it.
Next ==
  \E t \in Threads :
    \/ \E cats \in ConcurrentCategoryLists : Request(t, cats)
    \/ CheckGuard(t)
    \/ Enter(t)
    \/ Gather(t, ConcurrentResults)
    \/ GatherDone(t)
    \/ LoopHead(t)
    \/ FetchEmail(t)
    \/ FetchOwner(t)
    \/ Upload(t)
    \/ SaveExcel(t)

Spec == Init /\ [][Next]_vars

\* one /run request, with every category list and search result of the model
NextOneRun ==
  \/ \E cats \in CategoryLists : Request(1, cats)
  \/ CheckGuard(1)
  \/ Enter(1)
  \/ AdvanceClock(1)
  \/ Gather(1, OneRunResults)
  \/ GatherDone(1)
  \/ LoopHead(1)
  \/ FetchEmail(1)
  \/ FetchOwner(1)
  \/ Upload(1)
  \/ SaveExcel(1)

SpecOneRun == Init /\ [][NextOneRun]_vars

\* the statements of the worker thread of the one request, lines 341-453
OneRunSteps ==
  \/ CheckGuard(1)
  \/ Enter(1)
  \/ Gather(1, OneRunResults)
  \/ GatherDone(1)
  \/ LoopHead(1)
  \/ FetchEmail(1)
  \/ FetchOwner(1)
  \/ Upload(1)
  \/ SaveExcel(1)

\* The one request again, with the scheduling of threading.Thread(...).start()
\* (line 673): a started thread that has a next statement executes it.  A
\* thread ended by an uncaught exception has none.  Nothing obliges a user to
\* send the request, nor the clock to reach a sample.
SpecOneRunFair == Init /\ [][NextOneRun]_vars /\ WF_vars(OneRunSteps)

-----------------------------------------------------------------------------
(* normalize_phone_for_sms applied to phone numbers in every punctuation.  *)

PhoneStem == <<"0","4","5","5","5","1","2","3","4">>

\* digit strings of 9 to 9 + MaxLead digits
PhoneDigitSeqs == { lead \o PhoneStem : lead \in SeqsUpTo({"1", "8"}, MaxLead) }

Punctuation == {"-", " ", "(", ")"}

InsertAt(s, i, c) == SubSeq(s, 1, i) \o << c >> \o SubSeq(s, i + 1, Len(s))

InitPhone ==
  /\ InitRun /\ IdleLog
  /\ phone_digits \in PhoneDigitSeqs
  /\ raw_phone = phone_digits
  /\ sms_phone = << >>
  /\ page_emails = << >>
  /\ found_email = << >>
  /\ page_text = << >>
  /\ owner_phone = << << >>, << >> >>
  /\ fn_done = FALSE

\* the listing or the page writes the number with one more punctuation mark
Punctuate ==
  /\ ~fn_done
  /\ Len(raw_phone) - Len(phone_digits) < MaxPunct
  /\ \E i \in 0..Len(raw_phone), c \in Punctuation :
       raw_phone' = InsertAt(raw_phone, i, c)
  /\ UNCHANGED << scraper_logs, runVars, logVars, phone_digits, sms_phone,
                  page_emails, found_email, page_text, owner_phone, fn_done >>

\* line 307
NormalizePhone ==
  /\ ~fn_done
  /\ sms_phone' = normalize_phone_for_sms(raw_phone)
  /\ fn_done' = TRUE
  /\ UNCHANGED << scraper_logs, runVars, logVars, phone_digits, raw_phone,
                  page_emails, found_email, page_text, owner_phone >>

NextPhone == Punctuate \/ NormalizePhone

SpecPhone == InitPhone /\ [][NextPhone]_vars

-----------------------------------------------------------------------------
(* find_email_on_website applied to the candidates of a page.              *)

CandidateEmails ==
  { <<"I","n","f","o","@","E","x","a","m","p","l","e",".","c","o","m">>, <<"N","a","m","e","@","C","o","m","p","a","n","y",".","c","o","m">>, <<"x","@","W","i","x","p","r","e","s","s",".","c","o","m">>,
    <<"a","@","s","e","n","t","r","y",".","i","o">>, <<"b","o","b","@","a","c","e",".","c","o","m">>, <<"J","a","n","e","@","C","a","f","e",".","t","e","s","t">> }

InitEmail ==
  /\ InitRun /\ IdleLog
  /\ page_emails \in SeqsUpTo(CandidateEmails, MaxCands)
  /\ found_email = << >>
  /\ raw_phone = << >>
  /\ phone_digits = << >>
  /\ sms_phone = << >>
  /\ page_text = << >>
  /\ owner_phone = << << >>, << >> >>
  /\ fn_done = FALSE

\* lines 246-254 and 257 on a page that was fetched
ScanPage ==
  /\ ~fn_done
  /\ found_email' = find_email_on_website("http://page.test", TRUE, page_emails).ret
  /\ fn_done' = TRUE
  /\ UNCHANGED << scraper_logs, runVars, logVars, raw_phone, phone_digits,
                  sms_phone, page_emails, page_text, owner_phone >>

NextEmail == ScanPage

SpecEmail == InitEmail /\ [][NextEmail]_vars

-----------------------------------------------------------------------------
(* find_owner_name_and_phone applied to page texts.                        *)

TextFragments ==
  { <<"O","u","r"," ","o","w","n","e","r"," ","i","s"," ","a","w","a","y">>, <<"."," ">>, <<"t","h","e"," ","m","a","n","a","g","e","r",","," ","J","a","n","e"," ","S","m","i","t","h">>, <<"B","o","b"," ","L","e","e">>,
    <<" ","F","o","u","n","d","e","r"," ","A","n","n"," ","L","e","e">>, <<"<","b",">">>, <<" ","c","a","l","l"," ","8","0","4","-","5","5","5","-","1","2","3","4"," ">> }

RECURSIVE Flatten(_)
Flatten(parts) == IF parts = << >> THEN << >> ELSE Head(parts) \o Flatten(Tail(parts))

PageTexts == { Flatten(parts) : parts \in SeqsUpTo(TextFragments, MaxFrags) }

InitOwner ==
  /\ InitRun /\ IdleLog
  /\ page_text \in PageTexts
  /\ owner_phone = << << >>, << >> >>
  /\ raw_phone = << >>
  /\ phone_digits = << >>
  /\ sms_phone = << >>
  /\ page_emails = << >>
  /\ found_email = << >>
  /\ fn_done = FALSE

\* lines 264-280 on a page that was fetched
ParsePage ==
  /\ ~fn_done
  /\ owner_phone' = find_owner_name_and_phone("http://page.test", TRUE, page_text).ret
  /\ fn_done' = TRUE
  /\ UNCHANGED << scraper_logs, runVars, logVars, raw_phone, phone_digits,
                  sms_phone, page_emails, found_email, page_text >>

NextOwner == ParsePage

SpecOwner == InitOwner /\ [][NextOwner]_vars

-----------------------------------------------------------------------------
(* The log buffer statement by statement: log_message (lines 151-153) in   *)
(* several threads, the clear at the start of a run (line 348) and the     *)
(* /logs reader (line 774).  Entries are numbered in append order.         *)

Loggers == 1..MaxLoggers

\* a buffer as earlier log_message calls left it
Prefilled(n) == [i \in 1..n |-> i]

InitLog ==
  /\ scraper_logs \in { Prefilled(n) : n \in {0, LOG_LIMIT - 1, LOG_LIMIT} }
  /\ appended = scraper_logs
  /\ observed = scraper_logs
  /\ lg = [t \in Loggers |-> "idle"]
  /\ scraper_in_progress = FALSE
  /\ seen_emails = {}
  /\ th = [t \in Threads |-> FreshThread]
  /\ brevo_calls = [t \in Threads |-> << >>]
  /\ processed = [t \in Threads |-> << >>]
  /\ IdlePure

NewEntries == { i \in 1..Len(appended) : appended[i] > LOG_LIMIT }

\* line 151: scraper_logs.append(entry)
LogMessageAppend(t) ==
  /\ lg[t] = "idle"
  /\ Cardinality(NewEntries) < MaxAppends
  /\ LET entry == LOG_LIMIT + 1 + Cardinality(NewEntries)
     IN  /\ scraper_logs' = LogAppend(scraper_logs, entry)
         /\ appended' = Append(appended, entry)
  /\ lg' = [lg EXCEPT ![t] = "test"]
  /\ UNCHANGED << runVars, observed, pureVars >>

\* line 152: if len(scraper_logs) > 400
LogMessageTest(t) ==
  /\ lg[t] = "test"
  /\ lg' = [lg EXCEPT ![t] = IF LogOverLimit(scraper_logs) THEN "pop" ELSE "idle"]
  /\ UNCHANGED << scraper_logs, runVars, appended, observed, pureVars >>

\* line 153: scraper_logs.pop(0), an IndexError on an empty list
LogMessagePop(t) ==
  /\ lg[t] = "pop"
  /\ IF scraper_logs = << >>
     THEN /\ lg' = [lg EXCEPT ![t] = "raised"]
          /\ scraper_logs' = scraper_logs
     ELSE /\ lg' = [lg EXCEPT ![t] = "idle"]
          /\ scraper_logs' = LogPop(scraper_logs)
  /\ UNCHANGED << runVars, appended, observed, pureVars >>

\* line 348: scraper_logs.clear() by a thread starting a run
ClearLogs(t) ==
  /\ lg[t] = "idle"
  /\ scraper_logs # << >>
  /\ scraper_logs' = << >>
  /\ UNCHANGED << runVars, logVars, pureVars >>

\* lines 772-774: /logs serves the buffer as it is
ReadLogs ==
  /\ observed' = scraper_logs
  /\ UNCHANGED << scraper_logs, runVars, lg, appended, pureVars >>

NextLog ==
  \/ \E t \in Loggers :
       \/ LogMessageAppend(t)
       \/ LogMessageTest(t)
       \/ LogMessagePop(t)
       \/ ClearLogs(t)
  \/ ReadLogs

SpecLog == InitLog /\ [][NextLog]_vars

-----------------------------------------------------------------------------
(* Properties.                                                             *)

\* the dedup key of a contact: the lowercased e-mail if there is one,
\* otherwise business_name + "|" + phone
DedupKey(contact) ==
  IF contact.email # << >> THEN Lower(contact.email)
  ELSE contact.name \o << "|" >> \o contact.phone

\* the businesses of a run whose contact went through add_to_brevo and back
WasUploaded(p) == p.outcome \in {"3", "5"}

\* C1: within one run no two contacts passed to add_to_brevo share a dedup
\* key (lowercased e-mail, or name|phone when there is no e-mail).
C1_NoSharedDedupKey ==
  \A t \in Threads :
    \A i, j \in 1..Len(brevo_calls[t]) :
      i < j => DedupKey(brevo_calls[t][i].contact) # DedupKey(brevo_calls[t][j].contact)

\* a processed business is a duplicate when an earlier business of the run
\* was passed to add_to_brevo with the same dedup key
IsDuplicate(t, i) ==
  \E j \in 1..(i - 1) :
    /\ processed[t][j].outcome # "duplicate"
    /\ DedupKey(processed[t][j].contact) = DedupKey(processed[t][i].contact)

\* C2: in one run add_to_brevo is called exactly once for every processed
\* business that is not a duplicate and never for a duplicate; a contact with
\* an e-mail goes to list 3 with has_email = TRUE, one without to list 5 with
\* has_email = FALSE.
C2_OneCallPerNonDuplicate ==
  \A t \in Threads :
    LET called == { i \in 1..Len(processed[t]) : processed[t][i].outcome # "duplicate" }
    IN  /\ \A i \in 1..Len(processed[t]) : IsDuplicate(t, i) <=> i \notin called
        /\ Len(brevo_calls[t]) = Cardinality(called)
        /\ \A k \in 1..Len(brevo_calls[t]) :
             LET c == brevo_calls[t][k]
             IN  IF c.contact.email # << >>
                 THEN c.has_email /\ c.payload.listId = LIST_WITH_EMAIL
                 ELSE ~c.has_email /\ c.payload.listId = LIST_NO_EMAIL

\* the threads that passed the guard of lines 343-345, set the flag and
\* cleared the globals, and have not left run_scraper_process
PastGuard == { t \in Threads :
                 th[t].pc \in {"gather", "loop", "email", "owner", "upload", "save"} }

\* C3: at most one thread is past the scraper_in_progress guard at any time.
C3_AtMostOneRun == Cardinality(PastGuard) <= 1

LastLog == scraper_logs[Len(scraper_logs)]

\* C4: a failure inside find_email_on_website or find_owner_name_and_phone
\* never leaves the function: it is logged and the empty result returned, an
\* empty URL gives the empty result, and the run goes on to upload the
\* business and to process the businesses after it.
C4_FetchFailureContained ==
  \A t \in Threads :
    LET r == th[t]
        p == processed[t]
    IN  /\ r.crash_at \notin {"email", "owner"}
        /\ (r.pc \in {"owner", "upload"} /\ r.email_fetch \in {"none", "error"})
             => r.email = << >>
        /\ (r.pc = "owner" /\ r.email_fetch = "error")
             => /\ LastLog.msg = "Error scanning for email"
                /\ LastLog.url = r.all_businesses[r.biz_i].website
        /\ (r.pc = "upload" /\ r.owner_fetch \in {"none", "error"})
             => r.owner = << >> /\ r.phone_from_site = << >>
        /\ (r.pc = "upload" /\ r.owner_fetch = "error")
             => /\ LastLog.msg = "Error parsing for owner/phone"
                /\ LastLog.url = r.all_businesses[r.biz_i].website
        /\ \A i \in 1..Len(p) :
             /\ p[i].email_fetch \in {"none", "error"}
                  => /\ p[i].contact.email = << >>
                     /\ p[i].outcome \in {"5", "raised"}
             /\ (p[i].owner_fetch \in {"none", "error"} /\ p[i].outcome = "duplicate")
                  => \E j \in 1..(i - 1) : /\ WasUploaded(p[j])
                                           /\ p[j].contact.email = p[i].contact.email
        /\ r.pc \in {"loop", "email", "owner", "upload"} => Len(p) = r.biz_i - 1
        /\ r.pc \in {"save", "finished"}
             => \/ Len(p) = Len(r.all_businesses)
                \/ ProcessingTimedOut(r.elapsed, r.uploaded)

\* a run in which both fetches of a business failed, the business was
\* uploaded to list 5 and a later business was processed
C4_Witness ==
  \E t \in Threads :
    \E i, j \in 1..Len(processed[t]) :
      /\ i < j
      /\ processed[t][i].email_fetch = "error"
      /\ processed[t][i].owner_fetch = "error"
      /\ processed[t][i].outcome = "5"
      /\ th[t].pc = "finished"

\* C5: raw phone strings with the same 10 digits normalize to "+1" and those
\* digits whatever the punctuation, and 11 digits starting with 1 normalize
\* to the same value as their last 10 digits.
C5_PhoneFormatInvariant ==
  fn_done =>
    /\ Len(phone_digits) = 10 => sms_phone = << "+", "1" >> \o phone_digits
    /\ (Len(phone_digits) = 11 /\ phone_digits[1] = "1")
         => /\ sms_phone = << "+", "1" >> \o SubSeq(phone_digits, 2, 11)
            /\ sms_phone = normalize_phone_for_sms(SubSeq(phone_digits, 2, 11))

\* a punctuated 11-digit number starting with 1 has been normalized
C5_Witness ==
  /\ fn_done
  /\ Len(phone_digits) = 11
  /\ phone_digits[1] = "1"
  /\ Len(raw_phone) = Len(phone_digits) + MaxPunct

Denylisted(e) ==
  \/ Lower(e) \in AVOID_EMAILS
  \/ \E bad \in BAD_EMAIL_SUBSTRINGS : Contains(Lower(e), bad)

PassingCandidates == { i \in 1..Len(page_emails) : ~Denylisted(page_emails[i]) }

\* C6: find_email_on_website returns the first candidate in page order that
\* is not denylisted (after lowercasing), "" when none passes, and never a
\* denylisted address.
C6_FirstPassingCandidate ==
  fn_done =>
    /\ found_email = IF PassingCandidates = {} THEN << >>
                     ELSE page_emails[SetMin(PassingCandidates)]
    /\ found_email # << >> => ~Denylisted(found_email)

\* a page whose first candidate is denylisted and which has two different
\* candidates that pass
C6_Witness ==
  /\ fn_done
  /\ PassingCandidates # {}
  /\ SetMin(PassingCandidates) > 1
  /\ Cardinality({ page_emails[i] : i \in PassingCandidates }) > 1

PageSegments == SplitDots(CleanText(page_text))

KeywordSegments == { i \in 1..Len(PageSegments) : HasOwnerKeyword(PageSegments[i]) }

NamedKeywordSegments == { i \in KeywordSegments : NameSearch(PageSegments[i]) # << >> }

\* C7 as claimed: only the first segment with an owner keyword is looked at;
\* the owner name is its first two-capitalized-word match, and there is no
\* owner name when that segment has no match.
C7_FirstKeywordSegmentOnly ==
  fn_done =>
    owner_phone[1] = IF KeywordSegments = {} THEN << >>
                     ELSE NameSearch(PageSegments[SetMin(KeywordSegments)])

\* C7 as amended: the owner name is the first two-capitalized-word match of
\* the first keyword segment that has such a match; there is no owner name
\* only when no keyword segment has one.
C7_FirstKeywordSegmentWithName ==
  fn_done =>
    owner_phone[1] = IF NamedKeywordSegments = {} THEN << >>
                     ELSE NameSearch(PageSegments[SetMin(NamedKeywordSegments)])

\* a page whose first keyword segment has no name and a later one has
C7_Witness ==
  /\ fn_done
  /\ NamedKeywordSegments # {}
  /\ SetMin(NamedKeywordSegments) > SetMin(KeywordSegments)
  /\ owner_phone[1] # << >>

\* C8: the phone of every contact is the site's phone if non-empty, else the
\* listing's; the owner name uploaded (FIRSTNAME) and the owner name written
\* to the export row are the extracted owner name if non-empty, else the
\* business name.
C8_ContactFallbacks ==
  \A t \in Threads :
    LET p  == processed[t]
        up == SelectSeq(p, WasUploaded)
        OwnerOrName(q) == IF q.contact.owner_name # << >> THEN q.contact.owner_name
                          ELSE q.biz.name
    IN  /\ \A i \in 1..Len(p) :
             p[i].contact.phone = IF p[i].phone_from_site # << >>
                                  THEN p[i].phone_from_site ELSE p[i].biz.phone
        /\ \A k \in 1..Len(brevo_calls[t]) :
             brevo_calls[t][k].payload.FIRSTNAME =
               IF brevo_calls[t][k].contact.owner_name # << >>
               THEN brevo_calls[t][k].contact.owner_name
               ELSE brevo_calls[t][k].contact.name
        /\ Len(th[t].rows_for_excel) = Len(up)
        /\ \A k \in 1..Len(up) :
             th[t].rows_for_excel[k].owner_name = OwnerOrName(up[k])

IsSuffix(s, full) ==
  /\ Len(s) <= Len(full)
  /\ s = SubSeq(full, Len(full) - Len(s) + 1, Len(full))

MinOf(a, b) == IF a <= b THEN a ELSE b

\* the log_message calls that have appended and not yet trimmed
InFlight == { t \in Loggers : lg[t] \in {"test", "pop"} }

\* C9 as claimed: a /logs reader never sees more than 400 entries, entries
\* leave the buffer only by eviction of the oldest once the bound is
\* exceeded, and the buffer is the most recent entries in append order.
C9_BoundedEvictOnly ==
  /\ Len(observed) <= LOG_LIMIT
  /\ Len(scraper_logs) >= MinOf(Len(appended), LOG_LIMIT)
  /\ IsSuffix(scraper_logs, appended)

\* C9 as amended: the buffer exceeds 400 entries only by one entry for each
\* log_message call that has appended and not yet trimmed (a reader can see
\* those); entries leave it from the front or all at once by the clear of a
\* new run, so it always is the most recent entries in append order.
C9_BoundedUpToInFlight ==
  /\ Len(scraper_logs) <= LOG_LIMIT + Cardinality(InFlight)
  /\ Len(observed) <= LOG_LIMIT + MaxLoggers
  /\ IsSuffix(scraper_logs, appended)

\* a reader saw 401 entries, and the oldest entry has since been evicted
C9_Witness ==
  /\ Len(observed) = LOG_LIMIT + 1
  /\ Len(scraper_logs) = LOG_LIMIT
  /\ scraper_logs[1] = 2

\* C10: the processing loop stops before the end of the list only between
\* two businesses and only when more than 180 seconds have passed and at
\* least 30 contacts are uploaded; with fewer than 30 uploaded every
\* business is processed however much time has passed.
C10_StopOnlyAfterTimeoutAndMinimum ==
  \A t \in Threads :
    LET r == th[t]
    IN  r.pc \in {"save", "finished"} =>
          /\ Len(processed[t]) = r.biz_i - 1
          /\ r.biz_i <= Len(r.all_businesses)
               => r.elapsed > TIMEOUT_SECONDS /\ r.uploaded >= MIN_CONTACTS
          /\ r.uploaded < MIN_CONTACTS => Len(processed[t]) = Len(r.all_businesses)

\* a run that stopped at the timeout with businesses left
C10_Witness ==
  \E t \in Threads :
    /\ th[t].pc = "finished"
    /\ th[t].biz_i <= Len(th[t].all_businesses)
    /\ th[t].uploaded = MIN_CONTACTS

\* the uploads of thread t to the no-email list
NoEmailCalls(t) == SelectSeq(brevo_calls[t], LAMBDA c : ~c.has_email)

\* C11: every contact sent to list 5, the no-email list, has a non-empty
\* final phone (the phone extracted from the site, else the listing's).
C11_NoEmailListHasPhone ==
  \A t \in Threads :
    \A k \in 1..Len(NoEmailCalls(t)) :
      LET c == NoEmailCalls(t)[k]
      IN  /\ c.payload.listId = LIST_NO_EMAIL
          /\ c.contact.phone # << >>
          /\ c.payload.PHONE # << >>

\* C12: a run that has set scraper_in_progress to True eventually sets it
\* back to False, whatever the search, the site fetches and the upload do.
C12_FlagEventuallyReset == scraper_in_progress ~> ~scraper_in_progress

=============================================================================
